---- MODULE Spec2Model ----
(***************************************************************************)
(* Streaming conversation state machine of src/components/ChatInterface.tsx *)
(* (React component ChatInterface and its handler handleSubmit).            *)
(*                                                                          *)
(* Text is a string, in which a character outside ASCII is written as its  *)
(* JavaScript escape \uXXXX.  A step of the model is one synchronous        *)
(* segment of JavaScript: the code between two awaits runs to completion    *)
(* and React applies the state updates it queued, in order, before any      *)
(* other handler runs.                                                      *)
(***************************************************************************)
EXTENDS Integers, Sequences, FiniteSets, TLC

\* ---------------------------------------------------------------- bounds
\* longest text the onChange event puts into the textarea
MaxInputLen == 1
\* accepted submissions per behaviour
MaxSubmits == 2
\* bytes one response body delivers, in chunks of any sizes
MaxStreamBytes == 2
\* first clock reading (milliseconds) and how far the clock may advance
ClockBase == 2
ClockSpan == 1

MaxClock == ClockBase + ClockSpan

\* characters the user types
InputChars == {" ", "a"}
\* bytes the response body is made of: "a" and the two bytes of U+00E9
StreamBytes == {97, 195, 169}

\* ------------------------------------------------------------- constants
\* content of the seeded greeting, lines 21-22
GreetingContent ==
    "\\u00a1Hola! Soy tu asistente de IA para la UTP. Puedo ayudarte con informaci\\u00f3n sobre regl"
    \o "amentos, gu\\u00edas de estudiante y procedimientos acad\\u00e9micos. \\u00bfEn qu\\u00e9 puedo ayudarte hoy?"

\* fixed fallback message of the catch block, lines 111-112
FallbackMessage ==
    "Lo siento, ocurri\\u00f3 un error al procesar tu mensaje. Por favor, intenta de nuevo."

\* U+FFFD, what a TextDecoder without fatal:true emits for malformed bytes
ReplacementChar == 65533
\* U+FEFF, removed at the start of the stream by a TextDecoder (ignoreBOM false)
ByteOrderMark == 65279

\* ---------------------------------------------------------- pure helpers
\* all texts over the characters S of length at most n
RECURSIVE Texts(_, _)
Texts(S, n) ==
    IF n = 0 THEN {""}
    ELSE {""} \cup {c \o t : c \in S, t \in Texts(S, n - 1)}

\* all byte sequences over S of length at most n
SeqsUpTo(S, n) == UNION {[1..k -> S] : k \in 0..n}

\* the white space and line terminators trim() removes, as far as a TLA+
\* string can name them
IsWhiteSpace(c) == c \in {" ", "\t", "\n", "\f", "\r"}

RECURSIVE TrimStart(_)
TrimStart(s) ==
    IF s = "" THEN ""
    ELSE IF IsWhiteSpace(Head(s)) THEN TrimStart(Tail(s))
    ELSE s

RECURSIVE TrimEnd(_)
TrimEnd(s) ==
    IF s = "" THEN ""
    ELSE IF IsWhiteSpace(SubSeq(s, Len(s), Len(s)))
         THEN TrimEnd(SubSeq(s, 1, Len(s) - 1))
    ELSE s

\* String.prototype.trim
Trim(s) == TrimEnd(TrimStart(s))

\* String.fromCodePoint for the code points the bytes of StreamBytes decode to
FromCodePoint(c) ==
    CASE c = 97 -> "a"
      [] c = 233 -> "\\u00e9"
      [] c = ReplacementChar -> "\\ufffd"

\* ------------------------------------------------- TextDecoder("utf-8")
\* State of a freshly constructed decoder (line 81): the UTF-8 decoder's
\* code point, bytes seen, bytes needed and continuation-byte bounds, and
\* whether the start of the stream is behind it.
NewDecoder ==
    [cp |-> 0, seen |-> 0, needed |-> 0, lower |-> 128, upper |-> 191,
     started |-> FALSE]

\* the decoder with its multi-byte state cleared
ResetDecoder(d) ==
    [d EXCEPT !.cp = 0, !.seen = 0, !.needed = 0, !.lower = 128, !.upper = 191]

\* a code point leaves the decoder: a byte order mark at the very start of
\* the stream is dropped, everything else is appended to the output
Emit(r, c) ==
    [dec |-> [r.dec EXCEPT !.started = TRUE],
     out |-> IF ~r.dec.started /\ c = ByteOrderMark THEN r.out
             ELSE r.out \o FromCodePoint(c)]

\* One byte through the UTF-8 decoder.  r = [dec, out]; the result has the
\* same shape plus again = TRUE when the byte has to be processed once more
\* (it ended a truncated sequence and starts the next character).
DecodeByte(r, b) ==
    LET d == r.dec IN
    IF d.needed = 0 THEN
        IF b \in 0..127 THEN
            [Emit(r, b) EXCEPT !.dec = ResetDecoder(@)] @@ [again |-> FALSE]
        ELSE IF b \in 194..223 THEN
            [dec |-> [d EXCEPT !.needed = 1, !.cp = b % 32],
             out |-> r.out, again |-> FALSE]
        ELSE IF b \in 224..239 THEN
            [dec |-> [d EXCEPT !.needed = 2, !.cp = b % 16,
                               !.lower = IF b = 224 THEN 160 ELSE 128,
                               !.upper = IF b = 237 THEN 159 ELSE 191],
             out |-> r.out, again |-> FALSE]
        ELSE IF b \in 240..244 THEN
            [dec |-> [d EXCEPT !.needed = 3, !.cp = b % 8,
                               !.lower = IF b = 240 THEN 144 ELSE 128,
                               !.upper = IF b = 244 THEN 143 ELSE 191],
             out |-> r.out, again |-> FALSE]
        ELSE
            Emit(r, ReplacementChar) @@ [again |-> FALSE]
    ELSE IF b \notin d.lower..d.upper THEN
        Emit([dec |-> ResetDecoder(d), out |-> r.out], ReplacementChar)
            @@ [again |-> TRUE]
    ELSE
        LET c == d.cp * 64 + (b % 64) IN
        IF d.seen + 1 = d.needed THEN
            Emit([dec |-> ResetDecoder(d), out |-> r.out], c)
                @@ [again |-> FALSE]
        ELSE
            [dec |-> [d EXCEPT !.cp = c, !.seen = d.seen + 1,
                               !.lower = 128, !.upper = 191],
             out |-> r.out, again |-> FALSE]

RECURSIVE DecodeBytes(_, _)
DecodeBytes(r, bytes) ==
    IF bytes = <<>> THEN r
    ELSE LET n == DecodeByte(r, Head(bytes))
             m == [dec |-> n.dec, out |-> n.out]
         IN  IF n.again THEN DecodeBytes(m, bytes)
             ELSE DecodeBytes(m, Tail(bytes))

\* decoder.decode(value): without stream: true every call starts afresh and
\* ends the text, so a character cut by the end of value becomes U+FFFD
DecodeWithoutStream(d, value) ==
    LET r == DecodeBytes([dec |-> ResetDecoder(d), out |-> ""], value)
    IN  IF r.dec.needed = 0 THEN r
        ELSE Emit([dec |-> ResetDecoder(r.dec), out |-> r.out], ReplacementChar)

\* decoder.decode(value, { stream: true }) (line 87): the text of the bytes
\* that complete a character, and the decoder that keeps the incomplete rest
Decode(d, value) == DecodeBytes([dec |-> d, out |-> ""], value)

\* ------------------------------------------------------------------ state
VARIABLES
    messages,     \* useState<Message[]>, line 18
    input,        \* useState(""), line 27
    isLoading,    \* useState(false), line 28
    clock,        \* the latest reading of the system clock (Date.now, new Date)
    pc,           \* where the running handleSubmit is suspended: "idle" (none
                  \* running), "fetch" (line 67), "read" (line 84)
    assistantId,  \* assistantMessage.id captured by the running handler
    requests,     \* bodies of the requests handed to fetch, in order
    response,     \* what the latest fetch settled to
    decoder,      \* the TextDecoder of the running handler, line 81
    chunks,       \* the values reader.read() delivered in the latest exchange
    lastEvent,    \* the event or promise settlement handled last
    mounted,      \* the input and isLoading of the render whose handleSubmit
                  \* is attached to the form: what line 42 reads
    earlier       \* the handleSubmit calls still suspended when a later call
                  \* passed line 42, oldest first

vars ==
    <<messages, input, isLoading, clock, pc, assistantId, requests, response,
      decoder, chunks, lastEvent, mounted, earlier>>

\* a message with isStreaming: true
IsStreaming(m) == "isStreaming" \in DOMAIN m /\ m.isStreaming = TRUE

\* { ...msg, content: c }
WithContent(msg, c) == [msg EXCEPT !.content = c]

\* { ...msg, isStreaming: b }: the field is added when the message lacks it
WithStreaming(msg, b) ==
    [f \in DOMAIN msg \cup {"isStreaming"} |->
        IF f = "isStreaming" THEN b ELSE msg[f]]

\* a new message in front of the ones there are
prepend(prev, message) == <<message>> \o prev

\* lines 51 and 64: [...prev, message]
append(prev, message) == Append(prev, message)

\* the chunk takes the place of the content
overwriteWithFragment(msgs, id, chunk) ==
    [i \in 1..Len(msgs) |->
        IF msgs[i].id = id THEN WithContent(msgs[i], chunk) ELSE msgs[i]]

\* the fragment goes in front of the content
prependFragment(msgs, id, chunk) ==
    [i \in 1..Len(msgs) |->
        IF msgs[i].id = id THEN WithContent(msgs[i], chunk \o msgs[i].content)
        ELSE msgs[i]]

\* lines 89-95: the fragment goes onto every message with the id
appendFragment(msgs, id, chunk) ==
    [i \in 1..Len(msgs) |->
        IF msgs[i].id = id THEN WithContent(msgs[i], msgs[i].content \o chunk)
        ELSE msgs[i]]

\* no message is marked
finalizeNothing(msgs, id) == msgs

\* the streaming mark is flipped
toggleStreaming(msgs, id) ==
    [i \in 1..Len(msgs) |->
        IF msgs[i].id = id THEN WithStreaming(msgs[i], ~IsStreaming(msgs[i]))
        ELSE msgs[i]]

\* lines 99-103: mark streaming as complete
finalize(msgs, id) ==
    [i \in 1..Len(msgs) |->
        IF msgs[i].id = id THEN WithStreaming(msgs[i], FALSE) ELSE msgs[i]]

\* the fallback message goes after the content received so far
appendErrorAndFinalize(msgs, id) ==
    [i \in 1..Len(msgs) |->
        IF msgs[i].id = id
        THEN WithStreaming(WithContent(msgs[i], msgs[i].content \o FallbackMessage),
                           FALSE)
        ELSE msgs[i]]

\* lines 106-117: the catch block's update
replaceAndFinalize(msgs, id) ==
    [i \in 1..Len(msgs) |->
        IF msgs[i].id = id
        THEN WithStreaming(WithContent(msgs[i], FallbackMessage), FALSE)
        ELSE msgs[i]]

\* a guard that forgets the busy flag
RejectsEmptyOnly(text, loading) == Trim(text) = ""

\* a guard that forgets to trim
RejectsUntrimmed(text, loading) == text = "" \/ loading

\* the guard of line 42: TRUE when handleSubmit returns at once
Rejects(text, loading) == Trim(text) = "" \/ loading

\* the request goes out twice
fetchTwice(sent, body) == Append(Append(sent, body), body)

\* lines 67-76: fetch(url, { method: "POST", ..., body }) hands one request to
\* the network
fetch(sent, body) == Append(sent, body)

\* response states
Pending == [settled |-> "pending", ok |-> FALSE, body |-> FALSE]
NoResponse == [settled |-> "none", ok |-> FALSE, body |-> FALSE]
Rejected == [settled |-> "rejected", ok |-> FALSE, body |-> FALSE]
Fulfilled(ok, body) == [settled |-> "fulfilled", ok |-> ok, body |-> body]

\* lines 18-28: the state after the first render; the clock reads ClockBase
\* when the greeting is made
Init ==
    /\ clock = ClockBase
    /\ messages = << [id |-> "1", content |-> GreetingContent,
                      type |-> "assistant", timestamp |-> ClockBase] >>
    /\ input = ""
    /\ isLoading = FALSE
    /\ pc = "idle"
    /\ assistantId = ""
    /\ requests = <<>>
    /\ response = NoResponse
    /\ decoder = NewDecoder
    /\ chunks = <<>>
    /\ lastEvent = "mount"
    /\ mounted = [input |-> "", isLoading |-> FALSE]
    /\ earlier = <<>>

\* lines 17-40: the queued state updates are rendered when the task that
\* queued them ends; the render makes a new handleSubmit, closed over the new
\* input and isLoading, and attaches it
render == mounted' = [input |-> input', isLoading |-> isLoading']

\* line 215: onChange={e => setInput(e.target.value)}.  The handler has no
\* condition of its own: a change event that reaches it while the textarea is
\* rendered disabled (line 220) is applied like any other, which leaves the
\* guard of line 42 as the only thing between a submit event and a second
\* exchange.
onChange(value) ==
    /\ input' = value
    /\ lastEvent' = "change"
    /\ UNCHANGED <<messages, isLoading, clock, pc, assistantId, requests,
                   response, decoder, chunks, earlier>>
    /\ render

\* lines 40-42: handleSubmit returns on an empty question or while loading
SubmitRejected ==
    /\ Rejects(mounted.input, mounted.isLoading)
    /\ lastEvent' = "submit"
    /\ UNCHANGED <<messages, input, isLoading, clock, pc, assistantId,
                   requests, response, decoder, chunks, mounted, earlier>>

\* lines 44-76: handleSubmit up to its suspension at await fetch(...).
\* t1..t4 are the clock readings of lines 45, 48, 57 and 60: each is at least
\* the one before it, and nothing makes the clock advance between two of them
\* or between two submissions.  A call that passes line 42 while another is
\* suspended leaves that one running.
Accept ==
    /\ ~Rejects(mounted.input, mounted.isLoading)
    /\ Len(requests) < MaxSubmits
    /\ \E t1 \in clock..MaxClock : \E t2 \in t1..MaxClock :
       \E t3 \in t2..MaxClock : \E t4 \in t3..MaxClock :
         LET userMessage ==
                 [id |-> ToString(t1), content |-> Trim(mounted.input),
                  type |-> "user", timestamp |-> t2]
             assistantMessage ==
                 [id |-> ToString(t3 + 1), content |-> "",
                  type |-> "assistant", timestamp |-> t4,
                  isStreaming |-> TRUE]
         IN  /\ messages' = append(append(messages, userMessage), assistantMessage)
             /\ assistantId' = assistantMessage.id
             /\ clock' = t4
    /\ input' = ""
    /\ isLoading' = TRUE
    /\ requests' = fetch(requests, [pregunta |-> Trim(mounted.input)])
    /\ response' = Pending
    /\ decoder' = NewDecoder
    /\ chunks' = <<>>
    /\ pc' = "fetch"
    /\ lastEvent' = "submit"
    /\ earlier' = IF pc = "idle" THEN earlier
                  ELSE Append(earlier, [pc |-> pc, assistantId |-> assistantId,
                                        decoder |-> decoder, chunks |-> chunks])

\* a submit event (form submit, or Enter through handleKeyDown, lines
\* 123-128) that is the last event of its task: the updates of lines 51-64
\* are rendered before the next event
SubmitAccepted == Accept /\ render

\* the busy flag stays as it is
finallyKeepsLoading == UNCHANGED isLoading

\* lines 118-120: finally { setIsLoading(false) }
finally == isLoading' = FALSE

\* lines 104-120 after a throw: catch, then finally
Fail(event) ==
    /\ messages' = replaceAndFinalize(messages, assistantId)
    /\ finally
    /\ pc' = "idle"
    /\ lastEvent' = event

\* line 67: the fetch promise rejects (network failure)
FetchRejected ==
    /\ pc = "fetch"
    /\ response' = Rejected
    /\ Fail("fetchRejected")
    /\ UNCHANGED <<input, clock, assistantId, requests, decoder, chunks,
                   earlier>>
    /\ render

\* lines 67-78: the fetch promise fulfils with a response without a body
FetchNoBody ==
    /\ pc = "fetch"
    /\ \E ok \in BOOLEAN : response' = Fulfilled(ok, FALSE)
    /\ Fail("noBody")
    /\ UNCHANGED <<input, clock, assistantId, requests, decoder, chunks,
                   earlier>>
    /\ render

\* lines 67-84: the fetch promise fulfils with a response of any status that
\* has a body; the reader and the decoder are made, the first read is awaited
FetchFulfilled ==
    /\ pc = "fetch"
    /\ \E ok \in BOOLEAN : response' = Fulfilled(ok, TRUE)
    /\ decoder' = NewDecoder
    /\ pc' = "read"
    /\ lastEvent' = "fetchFulfilled"
    /\ UNCHANGED <<messages, input, isLoading, clock, assistantId, requests,
                   chunks, earlier>>
    /\ render

\* number of bytes in a sequence of chunks
RECURSIVE BytesRead(_)
BytesRead(cs) == IF cs = <<>> THEN 0 ELSE Len(Head(cs)) + BytesRead(Tail(cs))

\* lines 84-95: a read delivers a chunk, which is decoded and appended
ReadChunk ==
    /\ pc = "read"
    /\ \E value \in SeqsUpTo(StreamBytes, MaxStreamBytes - BytesRead(chunks)) :
         /\ value # <<>>
         /\ LET r == Decode(decoder, value)
            IN  /\ messages' = appendFragment(messages, assistantId, r.out)
                /\ decoder' = r.dec
                /\ chunks' = Append(chunks, value)
    /\ lastEvent' = "readChunk"
    /\ UNCHANGED <<input, isLoading, clock, pc, assistantId, requests, response,
                   earlier>>
    /\ render

\* lines 84-85, 98-103, 118-120: the stream ends
ReadDone ==
    /\ pc = "read"
    /\ messages' = finalize(messages, assistantId)
    /\ finally
    /\ pc' = "idle"
    /\ lastEvent' = "readDone"
    /\ UNCHANGED <<input, clock, assistantId, requests, response, decoder,
                   chunks, earlier>>
    /\ render

\* line 84: the read promise rejects (the connection fails mid-stream)
ReadRejected ==
    /\ pc = "read"
    /\ Fail("readRejected")
    /\ UNCHANGED <<input, clock, assistantId, requests, response, decoder,
                   chunks, earlier>>
    /\ render

Next ==
    \/ \E value \in Texts(InputChars, MaxInputLen) : onChange(value)
    \/ SubmitRejected
    \/ SubmitAccepted
    \/ FetchRejected
    \/ FetchNoBody
    \/ FetchFulfilled
    \/ ReadChunk
    \/ ReadDone
    \/ ReadRejected

Spec == Init /\ [][Next]_vars

\* The promises the handler awaits settle: the request completes or fails,
\* and so does every read of the body, which is finite.
FairSpec ==
    /\ Spec
    /\ WF_vars(FetchRejected \/ FetchNoBody \/ FetchFulfilled)
    /\ WF_vars(ReadChunk \/ ReadDone \/ ReadRejected)

\* ------------------------------------- events dispatched within one task
\* a submit event followed by another event in the same task (two
\* requestSubmit() or click() calls of one script): lines 51-64 have queued
\* their updates, but the handleSubmit attached to the form is still the one
\* of the last render
SubmitUnrendered == Accept /\ UNCHANGED mounted

\* the suspended call at position i of earlier finishes and leaves the list
Finished(i) ==
    SubSeq(earlier, 1, i - 1) \o SubSeq(earlier, i + 1, Len(earlier))

\* lines 104-120 in the call at position i of earlier
EarlierFail(i, event) ==
    /\ messages' = replaceAndFinalize(messages, earlier[i].assistantId)
    /\ finally
    /\ earlier' = Finished(i)
    /\ lastEvent' = event
    /\ UNCHANGED <<input, clock, pc, assistantId, requests, response, decoder,
                   chunks>>
    /\ render

\* line 67 in an earlier call: its fetch promise rejects
EarlierFetchRejected ==
    \E i \in DOMAIN earlier :
        /\ earlier[i].pc = "fetch"
        /\ EarlierFail(i, "earlierFetchRejected")

\* lines 67-78 in an earlier call: its response has no body
EarlierFetchNoBody ==
    \E i \in DOMAIN earlier :
        /\ earlier[i].pc = "fetch"
        /\ EarlierFail(i, "earlierNoBody")

\* lines 67-84 in an earlier call: its response has a body
EarlierFetchFulfilled ==
    \E i \in DOMAIN earlier :
        /\ earlier[i].pc = "fetch"
        /\ earlier' = [earlier EXCEPT ![i].pc = "read",
                                      ![i].decoder = NewDecoder]
        /\ lastEvent' = "earlierFetchFulfilled"
        /\ UNCHANGED <<messages, input, isLoading, clock, pc, assistantId,
                       requests, response, decoder, chunks>>
        /\ render

\* lines 84-95 in an earlier call: a read delivers a chunk
EarlierReadChunk ==
    \E i \in DOMAIN earlier :
        /\ earlier[i].pc = "read"
        /\ \E value \in SeqsUpTo(StreamBytes,
                                 MaxStreamBytes - BytesRead(earlier[i].chunks)) :
             /\ value # <<>>
             /\ LET r == Decode(earlier[i].decoder, value)
                IN  /\ messages' = appendFragment(messages,
                                                  earlier[i].assistantId, r.out)
                    /\ earlier' = [earlier EXCEPT
                                     ![i].decoder = r.dec,
                                     ![i].chunks = Append(@, value)]
        /\ lastEvent' = "earlierReadChunk"
        /\ UNCHANGED <<input, isLoading, clock, pc, assistantId, requests,
                       response, decoder, chunks>>
        /\ render

\* lines 84-85, 98-103, 118-120 in an earlier call: its stream ends
EarlierReadDone ==
    \E i \in DOMAIN earlier :
        /\ earlier[i].pc = "read"
        /\ messages' = finalize(messages, earlier[i].assistantId)
        /\ finally
        /\ earlier' = Finished(i)
        /\ lastEvent' = "earlierReadDone"
        /\ UNCHANGED <<input, clock, pc, assistantId, requests, response,
                       decoder, chunks>>
        /\ render

\* line 84 in an earlier call: its read promise rejects
EarlierReadRejected ==
    \E i \in DOMAIN earlier :
        /\ earlier[i].pc = "read"
        /\ EarlierFail(i, "earlierReadRejected")

StaleNext ==
    \/ Next
    \/ SubmitUnrendered
    \/ EarlierFetchRejected
    \/ EarlierFetchNoBody
    \/ EarlierFetchFulfilled
    \/ EarlierReadChunk
    \/ EarlierReadDone
    \/ EarlierReadRejected

\* the component when several events may be dispatched within one task
StaleSpec == Init /\ [][StaleNext]_vars

\* ------------------------------------------------------------- properties
\* positions of the messages in streaming status
StreamingPositions == {i \in 1..Len(messages) : IsStreaming(messages[i])}

\* the assistant placeholder of the latest exchange
Placeholder == messages[Len(messages)]

\* the settlements that take the handler into its catch block
FailureEvents == {"fetchRejected", "noBody", "readRejected"}

\* s is a prefix of t
IsPrefix(s, t) == Len(s) <= Len(t) /\ SubSeq(t, 1, Len(s)) = s

ErrorReplaces ==
    lastEvent \in FailureEvents =>
        /\ Placeholder.id = assistantId
        /\ Placeholder.content = FallbackMessage
        /\ Placeholder.isStreaming = FALSE

\* a read failed after two non-empty fragments had been appended
ErrorReplacesWitness ==
    /\ lastEvent = "readRejected"
    /\ chunks = << <<97>>, <<97>> >>
    /\ Placeholder.content = FallbackMessage

\* C3: a response with a non-success status ends in the failure terminal
\* state and no byte of its body ever reaches the placeholder's content.
NonSuccessStatusFails ==
    (response.settled = "fulfilled" /\ ~response.ok) =>
        IF pc = "idle"
        THEN Placeholder.content = FallbackMessage /\ ~IsStreaming(Placeholder)
        ELSE Placeholder.content = ""

EmptySubmissionRejected ==
    [][(lastEvent' = "submit" /\ Trim(input) = "") =>
          UNCHANGED <<messages, input, isLoading, clock, pc, assistantId,
                      requests, response, decoder, chunks, mounted,
                      earlier>>]_vars

\* a whitespace-only input was submitted while no exchange was running
EmptySubmissionRejectedWitness ==
    /\ lastEvent = "submit"
    /\ input = " "
    /\ ~isLoading
    /\ Len(messages) = 1

\* the conversation is the greeting followed by one (user message, assistant
\* message) pair per accepted submission, in submission order
OrderShape ==
    /\ Len(messages) = 1 + 2 * Len(requests)
    /\ messages[1].id = "1"
    /\ messages[1].type = "assistant"
    /\ messages[1].content = GreetingContent
    /\ ~IsStreaming(messages[1])
    /\ \A k \in 1..Len(requests) :
         /\ messages[2 * k].type = "user"
         /\ messages[2 * k].content = requests[k].pregunta
         /\ ~IsStreaming(messages[2 * k])
         /\ messages[2 * k + 1].type = "assistant"

\* a step removes and reorders nothing: every message stays at its position
\* with its id, role and timestamp, and new ones come as a pair at the end
OrderKept ==
    /\ Len(messages') \in {Len(messages), Len(messages) + 2}
    /\ \A i \in 1..Len(messages) :
         /\ messages'[i].id = messages[i].id
         /\ messages'[i].type = messages[i].type
         /\ messages'[i].timestamp = messages[i].timestamp

\* C6: every state is the greeting followed by (user, assistant) pairs in
\* submission order, a user message never without its placeholder, and no
\* step removes a message or changes the order of the existing ones.
AppendOnlyOrdering == []OrderShape /\ [][OrderKept]_vars

\* two exchanges are over and their four messages are in submission order
AppendOnlyOrderingWitness ==
    /\ Len(messages) = 5
    /\ pc = "idle"
    /\ messages[2].type = "user" /\ messages[4].type = "user"
    /\ messages[3].content # "" /\ messages[3].content # FallbackMessage

\* C7: a message that is final keeps its content and stays final in every
\* later state, whatever any exchange appends, finalizes or replaces.
FinalIsImmutable ==
    [][\A i \in 1..Len(messages) :
          ~IsStreaming(messages[i]) =>
              /\ messages'[i].content = messages[i].content
              /\ ~IsStreaming(messages'[i])]_vars

\* C8: all messages of the conversation have pairwise distinct ids.
IdsAreUnique ==
    \A i, j \in 1..Len(messages) :
        i # j => messages[i].id # messages[j].id

\* C9: until it is finalized, the content of a streaming placeholder is only
\* ever extended: each value is a prefix of the next, and in an exchange
\* that succeeds finalization leaves the content as it is.
MonotonicGrowth ==
    [][\A i \in 1..Len(messages) :
          (IsStreaming(messages[i]) /\ lastEvent' \notin FailureEvents) =>
              /\ IsPrefix(messages[i].content, messages'[i].content)
              /\ lastEvent' = "readDone" =>
                     messages'[i].content = messages[i].content]_vars

\* an exchange succeeded after its content grew by two fragments
MonotonicGrowthWitness ==
    /\ lastEvent = "readDone"
    /\ chunks = << <<97>>, <<97>> >>
    /\ Placeholder.content = "aa"

\* C10: every accepted submission reaches a terminal state: eventually no
\* handler is running, the busy flag is clear and no message is streaming.
ExchangeTerminates ==
    (pc # "idle") ~> (pc = "idle" /\ ~isLoading /\ StreamingPositions = {})

\* an exchange whose response had no body is over and the flag is clear
ExchangeTerminatesWitness ==
    /\ lastEvent = "noBody"
    /\ pc = "idle"
    /\ ~isLoading
    /\ StreamingPositions = {}
    /\ Placeholder.content = FallbackMessage

\* the bytes of a sequence of chunks, in order
RECURSIVE Flatten(_)
Flatten(cs) == IF cs = <<>> THEN <<>> ELSE Head(cs) \o Flatten(Tail(cs))

\* b is a UTF-8 continuation byte
IsContinuation(b) == b \in 128..191

\* number of bytes of the UTF-8 sequence a lead byte announces, 0 for a byte
\* that cannot start a sequence
SequenceLength(b) ==
    IF b \in 0..127 THEN 1
    ELSE IF b \in 194..223 THEN 2
    ELSE IF b \in 224..239 THEN 3
    ELSE IF b \in 240..244 THEN 4
    ELSE 0

\* the second byte of a sequence is in the range its lead byte allows
SecondByteFits(lead, b) ==
    CASE lead = 224 -> b \in 160..191
      [] lead = 237 -> b \in 128..159
      [] lead = 240 -> b \in 144..191
      [] lead = 244 -> b \in 128..143
      [] OTHER -> IsContinuation(b)

\* bytes is well-formed UTF-8 (the Unicode standard's table of well-formed
\* byte sequences); with partial = TRUE a sequence cut short by the end of
\* bytes is accepted too
RECURSIVE WellFormed(_, _)
WellFormed(bytes, partial) ==
    IF bytes = <<>> THEN TRUE
    ELSE LET n == SequenceLength(Head(bytes))
             m == IF n < Len(bytes) THEN n ELSE Len(bytes)
         IN  /\ n > 0
             /\ n <= Len(bytes) \/ partial
             /\ m >= 2 => SecondByteFits(bytes[1], bytes[2])
             /\ \A k \in 3..m : IsContinuation(bytes[k])
             /\ WellFormed(SubSeq(bytes, m + 1, Len(bytes)), partial)

\* C11: when the chunks of an exchange hold bytes that cannot be read as
\* UTF-8 text, the exchange ends in the failure terminal state, the
\* placeholder's content being the fallback message.
MalformedBytesFail ==
    (pc = "idle" /\ ~WellFormed(Flatten(chunks), TRUE)) =>
        /\ lastEvent \notin {"readDone"}
        /\ Placeholder.content = FallbackMessage

\* the text a decoder carried through the chunks cs, starting in state d,
\* gives: the fragments of the chunks one after the other
RECURSIVE FragmentsText(_, _)
FragmentsText(d, cs) ==
    IF cs = <<>> THEN ""
    ELSE LET r == Decode(d, Head(cs))
         IN  r.out \o FragmentsText(r.dec, Tail(cs))

\* C13: fragments are applied in the order their chunks are read, one update
\* per chunk read, and the content of an exchange that is reading or has
\* succeeded is the concatenation of the decoded fragments in read order.
FragmentOrder ==
    /\ []((pc = "read" \/ lastEvent = "readDone") =>
             Placeholder.content = FragmentsText(NewDecoder, chunks))
    /\ [][lastEvent' = "readChunk" =>
             \/ UNCHANGED vars
             \/ /\ Len(chunks') = Len(chunks) + 1
                /\ SubSeq(chunks', 1, Len(chunks)) = chunks
                /\ Placeholder'.content =
                       Placeholder.content
                           \o Decode(decoder, chunks'[Len(chunks')]).out]_vars

\* an exchange succeeded whose two fragments differ
FragmentOrderWitness ==
    /\ lastEvent = "readDone"
    /\ chunks = << <<97>>, <<169>> >>
    /\ Placeholder.content = "a\\ufffd"

\* the code point of the well-formed UTF-8 sequence bytes
CodePointOf(bytes) ==
    CASE Len(bytes) = 1 -> bytes[1]
      [] Len(bytes) = 2 -> (bytes[1] % 32) * 64 + (bytes[2] % 64)
      [] Len(bytes) = 3 ->
             (bytes[1] % 16) * 4096 + (bytes[2] % 64) * 64 + (bytes[3] % 64)
      [] Len(bytes) = 4 ->
             (bytes[1] % 8) * 262144 + (bytes[2] % 64) * 4096
                 + (bytes[3] % 64) * 64 + (bytes[4] % 64)

\* the characters of well-formed UTF-8 bytes, one sequence at a time
RECURSIVE CharactersOf(_)
CharactersOf(bytes) ==
    IF bytes = <<>> THEN ""
    ELSE LET n == SequenceLength(Head(bytes))
         IN  FromCodePoint(CodePointOf(SubSeq(bytes, 1, n)))
                 \o CharactersOf(SubSeq(bytes, n + 1, Len(bytes)))

\* the text of well-formed UTF-8 bytes read as a whole: its characters,
\* without a byte order mark at the start
TextOf(bytes) ==
    IF Len(bytes) >= 3 /\ SubSeq(bytes, 1, 3) = <<239, 187, 191>>
    THEN CharactersOf(SubSeq(bytes, 4, Len(bytes)))
    ELSE CharactersOf(bytes)

\* C14: when the chunks of a successful exchange are, taken together,
\* well-formed UTF-8, the final content is the text of the unsplit bytes,
\* however they were split into chunks.
BoundaryCorrect ==
    (lastEvent = "readDone" /\ WellFormed(Flatten(chunks), FALSE)) =>
        Placeholder.content = TextOf(Flatten(chunks))

\* a two-byte character arrived one byte per chunk
BoundaryCorrectWitness ==
    /\ lastEvent = "readDone"
    /\ chunks = << <<195>>, <<169>> >>
    /\ Placeholder.content = "\\u00e9"

\* C15: a fragment is only ever appended to messages that are in the
\* conversation and in streaming status: the id a chunk is applied to names
\* at least one message, and every message it names is streaming.
FragmentTargetsStreaming ==
    [][lastEvent' = "readChunk" =>
          \/ UNCHANGED vars
          \/ /\ \E i \in 1..Len(messages) : messages[i].id = assistantId
             /\ \A i \in 1..Len(messages) :
                  messages[i].id = assistantId => IsStreaming(messages[i])]_vars

\* C16: every accepted submission hands exactly one request to the network
\* and nothing else ever does: requests and user messages stay one to one.
SingleRequest ==
    /\ [](2 * Len(requests) = Len(messages) - 1)
    /\ [][requests' # requests =>
             /\ lastEvent' = "submit"
             /\ ~isLoading
             /\ Trim(input) # ""
             /\ requests' = Append(requests, [pregunta |-> Trim(input)])]_vars

\* the first exchange failed and the second request came with a second
\* submission
SingleRequestWitness ==
    /\ Len(requests) = 2
    /\ Len(messages) = 5
    /\ messages[3].content = FallbackMessage
    /\ pc = "fetch"

\* C17: finalizing a message a second time changes nothing: for every id,
\* finalize applied twice gives what it gives applied once, and after a
\* successful exchange finalizing its placeholder again leaves the
\* conversation as it is.
IdempotentFinalize ==
    /\ \A id \in {messages[i].id : i \in 1..Len(messages)} \cup {"0"} :
         finalize(finalize(messages, id), id) = finalize(messages, id)
    /\ lastEvent = "readDone" => finalize(messages, assistantId) = messages

\* an exchange was finalized after it received content
IdempotentFinalizeWitness ==
    /\ lastEvent = "readDone"
    /\ Placeholder.content = "a"
    /\ Placeholder.isStreaming = FALSE

\* C18: a fragment append, a finalize and an error replacement change only
\* the content and status of the exchange's own placeholder: every other
\* message, the placeholder's id, role and timestamp and the number of
\* messages stay as they are.
ExchangeFrame ==
    [][lastEvent' \in {"readChunk", "readDone"} \cup FailureEvents =>
          /\ Len(messages') = Len(messages)
          /\ \A i \in 1..(Len(messages) - 1) : messages'[i] = messages[i]
          /\ Placeholder'.id = Placeholder.id
          /\ Placeholder'.type = Placeholder.type
          /\ Placeholder'.timestamp = Placeholder.timestamp]_vars

ReentrancyRejected ==
    [][(isLoading /\ lastEvent' = "submit") =>
          UNCHANGED <<messages, requests, pc, assistantId, earlier>>]_vars
====
